---- MODULE Spec2Model ----
(***************************************************************************)
(* beanzero: the budget ledger engine.                                     *)
(*                                                                         *)
(*   - the transaction classifier  (budget/core.py, from_beancount_tx)     *)
(*   - the per-month record        (budget/core.py, MonthlyTotals)         *)
(*   - the month arithmetic        (budget/spec.py, Month)                 *)
(*   - the store                   (budget/store.py, BudgetStore)          *)
(*   - the recompute controller    (budget/budget.py, Budget)              *)
(*                                                                         *)
(* Amounts are exact decimals of one currency (beancount Amount); they are *)
(* modelled as integers (a fixed number of minor units).                   *)
(* A date is modelled by its Month: nothing in the engine reads the day.   *)
(***************************************************************************)
EXTENDS Integers, Sequences, FiniteSets, TLC

VARIABLES
    tx,                   \* classifier run: the raw beancount transaction
    btx,                  \* classifier run: what from_beancount_tx gave for tx
    pc,                   \* "new" (before Budget.__init__), "ready", "raised"
    err,                  \* the exception that left the session, "" when none
    now,                  \* Month.now(), fixed during a session
    directives,           \* the ledger: the raw transactions beancount loads
    storage,              \* the persisted store file (spec.storage)
    monthly_transactions, \* Budget.monthly_transactions (a defaultdict(list))
    assigned,             \* Budget._store.assigned (a defaultdict)
    monthly_totals        \* Budget.monthly_totals (a dict)

vars == << tx, btx, pc, err, now, directives, storage,
           monthly_transactions, assigned, monthly_totals >>

(***************************************************************************)
(* Bounds of the model.                                                    *)
(***************************************************************************)
MaxPostings == 3     \* postings of a raw transaction given to the classifier
MaxCategories == 3   \* categories of a budget given to classify
MaxStep == 13        \* months added to or subtracted from a Month, either way
MaxAssign == 1       \* assigned amounts are drawn from 0..MaxAssign
MaxHeld == 1         \* held amounts are drawn from -1..MaxHeld
UniverseLen == 5     \* months a caller may name: September 2024 and the next ones

(***************************************************************************)
(* Month (budget/spec.py)                                                  *)
(***************************************************************************)
Month(m, y) == [month |-> m, year |-> y]

\* The validator of the month field: a Month for which it is FALSE cannot be
\* constructed (the constructor raises ValueError).
check_month(m) == 1 <= m.month /\ m.month <= 12

\* Month.__add__.  The value returned is the argument list of the Month(...)
\* the code constructs; the construction raises when check_month fails.
month_add(m, months) ==
    LET new_month == m.month + months
    IN  IF new_month > 12 \/ new_month < 0
        THEN Month(new_month % 12, m.year + (new_month \div 12))
        ELSE Month(new_month, m.year)

\* Month.__sub__ with an int, and with a Month.
month_sub(m, months) == month_add(m, -months)
month_diff(a, b) == 12 * (a.year - b.year) + a.month - b.month

\* Month.__lt__, and the <= that functools.total_ordering derives from it.
month_lt(a, b) == a.year < b.year \/ (a.year = b.year /\ a.month < b.month)
month_le(a, b) == month_lt(a, b) \/ a = b

\* max() and min() of a non-empty collection of Months.
max_month(S) == CHOOSE m \in S : \A o \in S : month_le(o, m)
min_month(S) == CHOOSE m \in S : \A o \in S : month_le(m, o)

(***************************************************************************)
(* BudgetSpec (budget/spec.py): the budget of the sessions modelled.       *)
(* "Assets:Bills" is a budget account that a category lists too, and       *)
(* "Expenses:Shared" is listed by two categories.                          *)
(***************************************************************************)
accounts == {"Assets:Checking", "Assets:Bills"}

groups ==
    << [name |-> "Necessary expenses",
        categories |-> << [key |-> "rent",
                           accounts |-> {"Expenses:Rent", "Expenses:Shared"}] >>],
       [name |-> "Bills",
        categories |-> << [key |-> "utilities",
                           accounts |-> {"Expenses:Utilities", "Expenses:Shared",
                                         "Assets:Bills"}] >>] >>

zero == 0

RECURSIVE concat_categories(_, _)
concat_categories(gs, i) ==
    IF i > Len(gs) THEN << >>
    ELSE gs[i].categories \o concat_categories(gs, i + 1)

\* every category of every group, in the order of the spec
all_categories == concat_categories(groups, 1)

\* BudgetSpec.all_category_keys
all_category_keys == [i \in 1..Len(all_categories) |-> all_categories[i].key]

CategoryKeys == {all_category_keys[i] : i \in 1..Len(all_category_keys)}

\* BudgetSpec.category_map(): a CategoryMap, every key of the spec at zero.
category_map == [k \in CategoryKeys |-> zero]

\* BudgetSpec.is_budget_acccount
is_budget_acccount(beancount_account) == beancount_account \in accounts

RECURSIVE FirstMatchWins(_, _, _, _)
FirstMatchWins(categories, beancount_account, i, found) ==
    IF i > Len(categories) THEN [error |-> "", key |-> found, named |-> << >>]
    ELSE IF beancount_account \in categories[i].accounts /\ found = ""
         THEN FirstMatchWins(categories, beancount_account, i + 1, categories[i].key)
         ELSE FirstMatchWins(categories, beancount_account, i + 1, found)

\* BudgetSpec.get_account_category over a list of categories (every category
\* of every group, in order).  found = "" is None; named holds the two keys
\* the ValueError names.
RECURSIVE scan_category_list(_, _, _, _)
scan_category_list(categories, beancount_account, i, found) ==
    IF i > Len(categories) THEN [error |-> "", key |-> found, named |-> << >>]
    ELSE IF beancount_account \in categories[i].accounts
         THEN IF found = ""
              THEN scan_category_list(categories, beancount_account, i + 1,
                                      categories[i].key)
              ELSE [error |-> "fits in multiple categories", key |-> found,
                    named |-> << found, categories[i].key >>]
         ELSE scan_category_list(categories, beancount_account, i + 1, found)

\* the scan over the categories of the budget modelled
scan_categories(beancount_account, i, found) ==
    scan_category_list(all_categories, beancount_account, i, found)

get_account_category(beancount_account) ==
    scan_categories(beancount_account, 1, "")

(***************************************************************************)
(* Folds: functools.reduce(amt.add, values, zero)                          *)
(***************************************************************************)
RECURSIVE reduce_add(_, _, _)
reduce_add(values, i, acc) ==
    IF i > Len(values) THEN acc ELSE reduce_add(values, i + 1, acc + values[i])

\* CategoryMap.values(), in key order
map_values(m) == [i \in 1..Len(all_category_keys) |-> m[all_category_keys[i]]]

(***************************************************************************)
(* BudgetTransaction (budget/core.py)                                      *)
(***************************************************************************)
btx_total_spending(t) == reduce_add(map_values(t.spending), 1, 0)

FundingSignSlip(t) == t.flow + btx_total_spending(t)

btx_funding(t) == t.flow - btx_total_spending(t)

btx_month(t) == t.date

\* What a call of from_beancount_tx gives: a BudgetTransaction ("ok"), None
\* ("none") or a raised ValueError ("error", with its message).
NoResult == [kind |-> "pending", error |-> "", date |-> Month(1, 0),
             flow |-> 0, spending |-> category_map]
Raised(message) == [NoResult EXCEPT !.kind = "error", !.error = message]
ReturnedNone == [NoResult EXCEPT !.kind = "none"]
Returned(date, flow, spending) ==
    [kind |-> "ok", error |-> "", date |-> date, flow |-> flow,
     spending |-> spending]

\* First scan: the flow through the budget accounts.  A posting without an
\* amount has units = << >>, one with amount n has units = << n >>.
RECURSIVE scan_flow(_, _, _, _)
scan_flow(postings, i, flow, budget_accounts) ==
    IF i > Len(postings)
    THEN [error |-> "", flow |-> flow, budget_accounts |-> budget_accounts]
    ELSE IF is_budget_acccount(postings[i].account)
         THEN IF postings[i].units = << >>
              THEN [error |-> "Null posting", flow |-> flow,
                    budget_accounts |-> budget_accounts]
              ELSE scan_flow(postings, i + 1, flow + postings[i].units[1],
                             budget_accounts \cup {postings[i].account})
         ELSE scan_flow(postings, i + 1, flow, budget_accounts)

SpendingClampedAtZero(spending, key, units) ==
    [spending EXCEPT ![key] = IF @ - units > 0 THEN 0 ELSE @ - units]

\* spending[cat] = amt.sub(spending[cat], posting.units)
subtract_units(spending, key, units) == [spending EXCEPT ![key] = @ - units]

RECURSIVE ScanSkipsNullPostings(_, _, _, _)
ScanSkipsNullPostings(postings, i, budget_accounts, spending) ==
    IF i > Len(postings) THEN [error |-> "", spending |-> spending]
    ELSE LET cat == get_account_category(postings[i].account)
         IN  IF cat.error # "" THEN [error |-> cat.error, spending |-> spending]
             ELSE IF cat.key = "" \/ postings[i].units = << >>
                  THEN ScanSkipsNullPostings(postings, i + 1, budget_accounts,
                                             spending)
             ELSE ScanSkipsNullPostings(postings, i + 1, budget_accounts,
                      subtract_units(spending, cat.key, postings[i].units[1]))

\* Second scan: the spending of each category.  The conflict test compares
\* the category KEY with the account names collected by the first scan.
RECURSIVE scan_spending(_, _, _, _)
scan_spending(postings, i, budget_accounts, spending) ==
    IF i > Len(postings) THEN [error |-> "", spending |-> spending]
    ELSE LET cat == get_account_category(postings[i].account)
         IN  IF cat.error # "" THEN [error |-> cat.error, spending |-> spending]
             ELSE IF cat.key = ""
                  THEN scan_spending(postings, i + 1, budget_accounts, spending)
             ELSE IF cat.key \in budget_accounts
                  THEN [error |-> "cannot be budget account and budget category",
                        spending |-> spending]
             ELSE IF postings[i].units = << >>
                  THEN [error |-> "Null posting", spending |-> spending]
             ELSE scan_spending(postings, i + 1, budget_accounts,
                      subtract_units(spending, cat.key, postings[i].units[1]))

FundingRefusedAtZero(t) == btx_funding(t) <= zero

FundingNeverChecked(t) == FALSE

\* the test  btx.funding < spec.zero
negative_funding(t) == btx_funding(t) < zero

FlowNeverSkipped(flow) == FALSE

\* the test  flow == spec.zero
no_flow(flow) == flow = zero

from_beancount_tx(t) ==
    LET first == scan_flow(t.postings, 1, zero, {})
    IN  IF first.error # "" THEN Raised(first.error)
        ELSE IF no_flow(first.flow) THEN ReturnedNone
        ELSE LET second == scan_spending(t.postings, 1, first.budget_accounts,
                                         category_map)
                 made == Returned(t.date, first.flow, second.spending)
             IN  IF second.error # "" THEN Raised(second.error)
                 ELSE IF negative_funding(made)
                      THEN Raised("Negative funding")
                      ELSE made

(***************************************************************************)
(* MonthlyTotals (budget/core.py): a record of the fields                  *)
(*   previous_tba, previous_holding, previous_overspending, funding,       *)
(*   holding, previous_carryover, spending, assigning                      *)
(* and the values derived from them on every read.                         *)
(***************************************************************************)
FundingIsFlow(txs) ==
    reduce_add([i \in 1..Len(txs) |-> txs[i].flow], 1, zero)

\* MonthlyTotals.aggregate_funding
aggregate_funding(txs) ==
    reduce_add([i \in 1..Len(txs) |-> btx_funding(txs[i])], 1, zero)

\* MonthlyTotals.aggregate_spending
RECURSIVE aggregate_spending_from(_, _, _)
aggregate_spending_from(txs, i, spending) ==
    IF i > Len(txs) THEN spending
    ELSE aggregate_spending_from(txs, i + 1,
             [k \in DOMAIN spending |-> spending[k] + txs[i].spending[k]])

aggregate_spending(txs) == aggregate_spending_from(txs, 1, category_map)

total_spending(r) == reduce_add(map_values(r.spending), 1, zero)

total_assigning(r) == reduce_add(map_values(r.assigning), 1, zero)

category_balances(r) ==
    [key \in CategoryKeys |->
        r.previous_carryover[key] + r.spending[key] + r.assigning[key]]

BalancesCarriedWhole(r) == category_balances(r)

carryover_balances(r) ==
    LET balances == category_balances(r)
    IN  [k \in DOMAIN balances |->
            IF balances[k] # 0 /\ balances[k] < 0 THEN zero ELSE balances[k]]

is_negative(a) == a < 0

SumOfEveryBalance(r) == reduce_add(map_values(category_balances(r)), 1, zero)

overspending(r) ==
    LET neg_balances == SelectSeq(map_values(category_balances(r)), is_negative)
    IN  reduce_add(neg_balances, 1, zero)

HoldingLeftAssignable(r) ==
    r.previous_tba + r.previous_holding + r.previous_overspending
    + r.funding - total_assigning(r)

to_be_assigned(r) ==
    LET tba1 == r.previous_tba
        tba2 == tba1 + r.previous_holding
        tba3 == tba2 + r.previous_overspending
        tba4 == tba3 + r.funding
        tba5 == tba4 - total_assigning(r)
        tba6 == tba5 - r.holding
    IN  tba6

\* MonthlyTotals.from_transactions; prev_month is << >> (None) or << r >>.
from_transactions(txs, holding, assigning, prev_month) ==
    [previous_tba |->
        IF prev_month = << >> THEN zero ELSE to_be_assigned(prev_month[1]),
     previous_holding |->
        IF prev_month = << >> THEN zero ELSE prev_month[1].holding,
     previous_overspending |->
        IF prev_month = << >> THEN zero ELSE overspending(prev_month[1]),
     funding |-> aggregate_funding(txs),
     holding |-> holding,
     previous_carryover |->
        IF prev_month = << >> THEN category_map
        ELSE carryover_balances(prev_month[1]),
     spending |-> aggregate_spending(txs),
     assigning |-> assigning]

(***************************************************************************)
(* BudgetStore (budget/store.py).  assigned is a defaultdict: reading a    *)
(* month it does not hold inserts an empty AssignedAmounts.                *)
(***************************************************************************)
EmptyMap == [m \in {} |-> 0]

AssignedAmounts(held, categories) == [held |-> held, categories |-> categories]

HeldUnchecked(held) == TRUE

\* AssignedAmounts.validate_held, run when a record is constructed and when
\* its held field is assigned:  assert held.number >= 0
validate_held(held) == held >= 0

\* the default_factory of the store's defaultdict
default_assigned == AssignedAmounts(zero, category_map)

\* d[key] on a defaultdict whose default is dflt: the dict afterwards
touch(d, key, dflt) ==
    IF key \in DOMAIN d THEN d
    ELSE [x \in DOMAIN d \cup {key} |-> IF x = key THEN dflt ELSE d[x]]

\* d[key] = value on a dict
put(d, key, value) ==
    [x \in DOMAIN d \cup {key} |-> IF x = key THEN value ELSE d[x]]

\* BudgetStore.prune: delete the empty months
prune(a) == [m \in {x \in DOMAIN a : a[x] # default_assigned} |-> a[m]]

ZeroEntriesWritten(a) == prune(a)

\* BudgetStore.save: prune, drop the zero categories of what is written, and
\* write.  What is written maps a month to its held amount and its non-zero
\* categories.
written(a) ==
    LET kept == prune(a)
    IN  [m \in DOMAIN kept |->
            [held |-> kept[m].held,
             categories |->
                [k \in {c \in DOMAIN kept[m].categories :
                            kept[m].categories[c] # zero} |->
                    kept[m].categories[k]]]]

\* BudgetStore.load: structure the file; structure_category starts from
\* category_map() and updates it with the entries of the file.
structure(file) ==
    [m \in DOMAIN file |->
        AssignedAmounts(file[m].held,
            [k \in CategoryKeys |->
                IF k \in DOMAIN file[m].categories
                THEN file[m].categories[k] ELSE zero])]

(***************************************************************************)
(* Budget (budget/budget.py).  A session is the record of what the Budget  *)
(* object holds, of the store file, of the exception raised (error) and of *)
(* the months whose record the running call has written (writes).          *)
(***************************************************************************)
Session(mt, a, totals, file) ==
    [monthly_transactions |-> mt, assigned |-> a, monthly_totals |-> totals,
     storage |-> file, error |-> "", writes |-> << >>]

\* Budget.ledger_start_month
ledger_start_month(s) == min_month(DOMAIN s.monthly_transactions)

\* Budget.latest_budget_month, read on a store that has just been pruned
latest_budget_month(s, today) ==
    IF DOMAIN s.assigned # {} THEN max_month(DOMAIN s.assigned) ELSE today

\* Budget.latest_month, read on a store that has just been pruned
latest_month(s, today) ==
    max_month({month_add(today, 1),
               month_add(latest_budget_month(s, today), 1),
               max_month(DOMAIN s.monthly_transactions)})

\* the record handed to from_transactions as prev_month
PrevIsLedgerStart(s, month) == << s.monthly_totals[ledger_start_month(s)] >>

PrevIsOwnRecord(s, month) ==
    IF month \in DOMAIN s.monthly_totals THEN << s.monthly_totals[month] >>
    ELSE << s.monthly_totals[month_sub(month, 1)] >>

prev_record(s, month) == << s.monthly_totals[month_sub(month, 1)] >>

StopsBeforeLatest(month, latest) == month_lt(month, latest)

\* the test of the while loop:  month <= self.latest_month
loop_continues(month, latest) == month_le(month, latest)

\* One turn of the while loop of update_monthly_totals at `month`, and the
\* turns after it.  Reading latest_month prunes the store.
RECURSIVE update_loop(_, _, _)
update_loop(s0, month, today) ==
    LET s == [s0 EXCEPT !.assigned = prune(s0.assigned)]
    IN
    IF DOMAIN s.monthly_transactions = {}
    THEN [s EXCEPT !.error = "ValueError: max() arg is an empty sequence"]
    ELSE IF ~ loop_continues(month, latest_month(s, today)) THEN s
    ELSE IF month = ledger_start_month(s)
    THEN LET a == touch(s.assigned, month, default_assigned)
             made == from_transactions(s.monthly_transactions[month],
                                       a[month].held, a[month].categories, << >>)
         IN  update_loop([s EXCEPT !.assigned = a,
                                   !.monthly_totals = put(@, month, made),
                                   !.writes = Append(@, month)],
                         month_add(month, 1), today)
    ELSE LET mt == touch(s.monthly_transactions, month, << >>)
             a == touch(s.assigned, month, default_assigned)
             s1 == [s EXCEPT !.monthly_transactions = mt, !.assigned = a]
         IN  IF ~ check_month(month_sub(month, 1))
             THEN [s1 EXCEPT !.error = "ValueError: Month must be between 1 and 12"]
             ELSE IF month_sub(month, 1) \notin DOMAIN s.monthly_totals
             THEN [s1 EXCEPT !.error = "KeyError: monthly_totals"]
             ELSE LET made == from_transactions(mt[month], a[month].held,
                                  a[month].categories, prev_record(s, month))
                  IN  update_loop([s1 EXCEPT !.monthly_totals = put(@, month, made),
                                             !.writes = Append(@, month)],
                                  month_add(month, 1), today)

StartsAfterFromMonth(s, from_month) ==
    IF from_month = << >> THEN ledger_start_month(s) ELSE month_add(from_month[1], 1)

AlwaysFromLedgerStart(s, from_month) == ledger_start_month(s)

\* the month the pass starts at:  from_month or self.ledger_start_month
first_month(s, from_month) ==
    IF from_month = << >> THEN ledger_start_month(s) ELSE from_month[1]

\* Budget.update_monthly_totals(from_month); from_month is << >> (None) or
\* << m >>.
update_monthly_totals(s, from_month, today) ==
    IF from_month = << >> /\ DOMAIN s.monthly_transactions = {}
    THEN [s EXCEPT !.error = "ValueError: min() arg is an empty sequence"]
    ELSE update_loop(s, first_month(s, from_month), today)

\* BudgetStore.save on the session: prune, and write the file
save(s) == [s EXCEPT !.assigned = prune(@), !.storage = written(s.assigned)]

SetCategoryUnvalidated(s, month, category, amount) ==
    LET a == touch(s.assigned, month, default_assigned)
    IN  [s EXCEPT !.assigned =
            [a EXCEPT ![month].categories = put(@, category, amount)]]

\* self._store.assigned[month].categories[category] = amount
\* (a CategoryMap refuses a key that is not a category of the spec)
set_category(s, month, category, amount) ==
    LET a == touch(s.assigned, month, default_assigned)
    IN  IF category \notin CategoryKeys
        THEN [s EXCEPT !.assigned = a, !.error = "KeyError: category"]
        ELSE [s EXCEPT !.assigned = [a EXCEPT ![month].categories[category] = amount]]

\* self._store.assigned[month].held = amount
\* (validate_held refuses a negative amount)
set_held(s, month, amount) ==
    LET a == touch(s.assigned, month, default_assigned)
    IN  IF ~ validate_held(amount)
        THEN [s EXCEPT !.assigned = a,
                       !.error = "AssertionError: Can't have negative held balance"]
        ELSE [s EXCEPT !.assigned = [a EXCEPT ![month].held = amount]]

\* what a mutation does once the store holds the new amount: recompute from
\* the month, then save
recompute_and_save(set, month, today) ==
    IF set.error # "" THEN set
    ELSE LET done == update_monthly_totals(set, << month >>, today)
         IN  IF done.error # "" THEN done ELSE save(done)

\* Budget.update_assigned_amount(month, category, amount)
update_assigned_amount(s, month, category, amount, today) ==
    recompute_and_save(set_category(s, month, category, amount), month, today)

\* Budget.update_held_amount(month, amount)
update_held_amount(s, month, amount, today) ==
    recompute_and_save(set_held(s, month, amount), month, today)

\* The loop of Budget.__init__ over the directives: convert each and file it
\* under its month.
RECURSIVE convert_all(_, _, _)
convert_all(ds, i, s) ==
    IF i > Len(ds) THEN s
    ELSE LET got == from_beancount_tx(ds[i])
         IN  IF got.kind = "error"
             THEN [s EXCEPT !.error = "ValueError: " \o got.error]
             ELSE IF got.kind = "none" THEN convert_all(ds, i + 1, s)
             ELSE LET t == [date |-> got.date, flow |-> got.flow,
                            spending |-> got.spending]
                      mt == touch(s.monthly_transactions, btx_month(t), << >>)
                  IN  convert_all(ds, i + 1,
                          [s EXCEPT !.monthly_transactions =
                              [mt EXCEPT ![btx_month(t)] = Append(@, t)]])

NoKeyIsUnknown(file) == {}

\* the loop of Budget.__init__ over the store just loaded: the (month, key)
\* pairs for which  cat not in self.spec.all_category_keys
unknown_categories(file) ==
    {p \in UNION {{<< m, k >> : k \in DOMAIN file[m].categories} : m \in DOMAIN file} :
        p[2] \notin CategoryKeys}

\* Budget.__init__
budget_init(ds, file, today) ==
    LET converted == convert_all(ds, 1, Session(EmptyMap, EmptyMap, EmptyMap, file))
    IN  IF converted.error # "" THEN converted
        ELSE IF \E m \in DOMAIN file : ~ validate_held(file[m].held)
        THEN [converted EXCEPT
                 !.error = "AssertionError: Can't have negative held balance"]
        ELSE IF unknown_categories(file) # {}
        THEN [converted EXCEPT
                 !.error = "ValueError: Budgeted amount for non-existent category"]
        ELSE update_monthly_totals(
                 [converted EXCEPT !.assigned = structure(file)], << >>, today)

(***************************************************************************)
(* The classifier on its own: every raw transaction of up to MaxPostings   *)
(* postings over the accounts below, converted once.                       *)
(***************************************************************************)
AccountNames == {"Assets:Checking", "Assets:Bills", "Expenses:Rent",
                 "Expenses:Utilities", "Expenses:Shared", "Income:Salary"}
UnitValues == {-1, 1, 2}
Units == {<< >>} \cup {<< n >> : n \in UnitValues}
Postings == [account : AccountNames, units : Units]
PostingLists == UNION {[1..n -> Postings] : n \in 0..MaxPostings}
TxDate == Month(10, 2024)

Idle ==
    /\ pc = "classifier"
    /\ err = ""
    /\ now = TxDate
    /\ directives = << >>
    /\ storage = EmptyMap
    /\ monthly_transactions = EmptyMap
    /\ assigned = EmptyMap
    /\ monthly_totals = EmptyMap

InitTx ==
    /\ tx \in [date : {TxDate}, postings : PostingLists]
    /\ btx = NoResult
    /\ Idle

ConvertTx ==
    /\ btx.kind = "pending"
    /\ btx' = from_beancount_tx(tx)
    /\ UNCHANGED << tx, pc, err, now, directives, storage,
                    monthly_transactions, assigned, monthly_totals >>

NextTx == ConvertTx

SpecTx == InitTx /\ [][NextTx]_vars

(***************************************************************************)
(* classify on its own: every budget of up to MaxCategories categories,    *)
(* each listing some of the accounts below, asked for one account once.    *)
(***************************************************************************)
KeyPool == << "rent", "utilities", "car", "hobbies", "eating-out" >>
ListedAccounts == {"Expenses:Rent", "Expenses:Shared"}
AskedAccounts == ListedAccounts \cup {"Assets:Savings"}
CategoryLists ==
    UNION {{[i \in 1..n |-> [key |-> KeyPool[i], accounts |-> pick[i]]] :
               pick \in [1..n -> SUBSET ListedAccounts]} : n \in 0..MaxCategories}

\* the same lists with the key of the first category given to the last too
DuplicatedLists ==
    {[c EXCEPT ![Len(c)].key = c[1].key] : c \in {l \in CategoryLists : Len(l) >= 2}}

\* BudgetSpec.check_groups, the validator run when the spec is loaded: the
\* loop over every category of every group, keys being the set built so far
RECURSIVE check_groups(_, _, _)
check_groups(categories, i, keys) ==
    IF i > Len(categories) THEN ""
    ELSE IF categories[i].key \in keys THEN "ValueError: Duplicate category key"
    ELSE check_groups(categories, i + 1, keys \cup {categories[i].key})

InitClassify ==
    /\ tx \in [account : AskedAccounts, categories : CategoryLists \cup DuplicatedLists]
    /\ btx = NoResult
    /\ pc = "spec"
    /\ err = ""
    /\ now = TxDate
    /\ directives = << >>
    /\ storage = EmptyMap
    /\ monthly_transactions = EmptyMap
    /\ assigned = EmptyMap
    /\ monthly_totals = EmptyMap

\* BudgetSpec.load: structure the file, which runs the validators
LoadSpec ==
    /\ pc = "spec"
    /\ err' = check_groups(tx.categories, 1, {})
    /\ pc' = IF err' = "" THEN "classify" ELSE "rejected"
    /\ UNCHANGED << tx, btx, now, directives, storage,
                    monthly_transactions, assigned, monthly_totals >>

Classify ==
    /\ pc = "classify"
    /\ btx' = scan_category_list(tx.categories, tx.account, 1, "")
    /\ pc' = "classified"
    /\ UNCHANGED << tx, err, now, directives, storage,
                    monthly_transactions, assigned, monthly_totals >>

NextClassify == LoadSpec \/ Classify

SpecClassify == InitClassify /\ [][NextClassify]_vars

(***************************************************************************)
(* Month arithmetic on its own: every Month of two years, moved once by    *)
(* every number of months from -MaxStep to MaxStep.                        *)
(***************************************************************************)
MonthInputs == {Month(m, y) : m \in 1..12, y \in {2024, 2025}}
StepInputs == (-MaxStep)..MaxStep

\* Month(...) on the arguments a: the Month, or the ValueError of check_month
construct(a) ==
    IF check_month(a) THEN [error |-> "", value |-> a]
    ELSE [error |-> "ValueError: Month must be between 1 and 12", value |-> a]

InitMonth ==
    /\ tx \in [month : MonthInputs, n : StepInputs]
    /\ btx = NoResult
    /\ pc = "month"
    /\ err = ""
    /\ now = TxDate
    /\ directives = << >>
    /\ storage = EmptyMap
    /\ monthly_transactions = EmptyMap
    /\ assigned = EmptyMap
    /\ monthly_totals = EmptyMap

\* tx.month + tx.n
AddMonths ==
    /\ pc = "month"
    /\ btx' = construct(month_add(tx.month, tx.n))
    /\ pc' = "added"
    /\ UNCHANGED << tx, err, now, directives, storage,
                    monthly_transactions, assigned, monthly_totals >>

\* tx.month - tx.n
SubtractMonths ==
    /\ pc = "month"
    /\ btx' = construct(month_sub(tx.month, tx.n))
    /\ pc' = "subtracted"
    /\ UNCHANGED << tx, err, now, directives, storage,
                    monthly_transactions, assigned, monthly_totals >>

NextMonth == AddMonths \/ SubtractMonths

SpecMonth == InitMonth /\ [][NextMonth]_vars

(***************************************************************************)
(* A session of the budget: the ledger, the store file and the clock are   *)
(* chosen, Budget.__init__ loads them, and the caller then mutates the     *)
(* budget.  An exception leaves the session: no caller in the repository   *)
(* catches one (tui/app.py, action_set_assigned).                          *)
(***************************************************************************)
Posting(account, n) == [account |-> account, units |-> << n >>]

Oct == Month(10, 2024)
Nov == Month(11, 2024)
Dec == Month(12, 2024)

\* income and rent in October, utilities with a rebate and rent in November
LedgerOctNov ==
    << [date |-> Oct, postings |-> << Posting("Assets:Checking", 3),
                                      Posting("Income:Salary", -3) >>],
       [date |-> Oct, postings |-> << Posting("Expenses:Rent", 1),
                                      Posting("Assets:Checking", -1) >>],
       [date |-> Nov, postings |-> << Posting("Income:Salary", -1),
                                      Posting("Expenses:Utilities", 2),
                                      Posting("Assets:Checking", -1) >>],
       [date |-> Nov, postings |-> << Posting("Expenses:Rent", 1),
                                      Posting("Assets:Checking", -1) >>] >>

\* a ledger that starts in December
LedgerDec ==
    << [date |-> Dec, postings |-> << Posting("Assets:Checking", 2),
                                      Posting("Income:Salary", -2) >>] >>

\* an outflow of the budget that no category explains
LedgerNegative ==
    << [date |-> Oct, postings |-> << Posting("Assets:Checking", 3),
                                      Posting("Income:Salary", -3) >>],
       [date |-> Nov, postings |-> << Posting("Assets:Checking", -1),
                                      Posting("Income:Salary", 1) >>] >>

\* nothing but a transfer between budget accounts
LedgerTransfer ==
    << [date |-> Oct, postings |-> << Posting("Assets:Checking", -1),
                                      Posting("Assets:Bills", 1) >>] >>

\* income in November and nothing spent
LedgerNov ==
    << [date |-> Nov, postings |-> << Posting("Assets:Checking", 2),
                                      Posting("Income:Salary", -2) >>] >>

Ledgers == {LedgerOctNov, LedgerDec, LedgerNegative, LedgerTransfer, LedgerNov}

NowChoices == {Oct, Nov, Dec}

FileOct == [m \in {Oct} |-> [held |-> 1, categories |-> [k \in {"rent"} |-> 1]]]

\* a store file whose November record holds a negative amount
FileNegativeHeld == [m \in {Nov} |-> [held |-> -1, categories |-> [k \in {"rent"} |-> 1]]]

\* a store file that assigns an amount to a key the spec does not define
FileUnknownKey ==
    [m \in {Oct} |-> [held |-> 0, categories |-> [k \in {"rent", "not-real"} |-> 1]]]

StoreFiles == {EmptyMap, FileOct, FileNegativeHeld, FileUnknownKey}

\* the months a caller names: September 2024 and the months after it
nth_month(i) == Month(((8 + i) % 12) + 1, 2024 + ((8 + i) \div 12))
MonthUniverse == {nth_month(i) : i \in 0..(UniverseLen - 1)}

KeyInputs == CategoryKeys \cup {"not-real"}
AssignInputs == 0..MaxAssign
HeldInputs == (-1)..MaxHeld

Current == [monthly_transactions |-> monthly_transactions, assigned |-> assigned,
            monthly_totals |-> monthly_totals, storage |-> storage,
            error |-> "", writes |-> << >>]

\* the session after a call that gave s
Becomes(s) ==
    /\ monthly_transactions' = s.monthly_transactions
    /\ assigned' = s.assigned
    /\ monthly_totals' = s.monthly_totals
    /\ storage' = s.storage
    /\ err' = s.error
    /\ pc' = IF s.error = "" THEN "ready" ELSE "raised"
    /\ UNCHANGED << tx, btx, now, directives >>

Init ==
    /\ tx = [date |-> TxDate, postings |-> << >>]
    /\ btx = NoResult
    /\ pc = "new"
    /\ err = ""
    /\ now \in NowChoices
    /\ directives \in Ledgers
    /\ storage \in StoreFiles
    /\ monthly_transactions = EmptyMap
    /\ assigned = EmptyMap
    /\ monthly_totals = EmptyMap

Load ==
    /\ pc = "new"
    /\ Becomes(budget_init(directives, storage, now))

SetAssigned(month, category, amount) ==
    /\ pc = "ready"
    /\ Becomes(update_assigned_amount(Current, month, category, amount, now))

SetHeld(month, amount) ==
    /\ pc = "ready"
    /\ Becomes(update_held_amount(Current, month, amount, now))

Recompute(from_month) ==
    /\ pc = "ready"
    /\ Becomes(update_monthly_totals(Current, from_month, now))

Next ==
    \/ Load
    \/ \E month \in MonthUniverse, category \in KeyInputs, amount \in AssignInputs :
           SetAssigned(month, category, amount)
    \/ \E month \in MonthUniverse, amount \in HeldInputs : SetHeld(month, amount)
    \/ \E from_month \in {<< >>} \cup {<< m >> : m \in MonthUniverse} :
           Recompute(from_month)

Spec == Init /\ [][Next]_vars

(***************************************************************************)
(* A session that begins with a short range: a ledger of September 2024    *)
(* opened in September, so that the months a caller names reach more than  *)
(* one month past the latest relevant month within the year.               *)
(***************************************************************************)
Sep == Month(9, 2024)

LedgerSep ==
    << [date |-> Sep, postings |-> << Posting("Assets:Checking", 2),
                                      Posting("Income:Salary", -2) >>],
       [date |-> Sep, postings |-> << Posting("Expenses:Rent", 1),
                                      Posting("Assets:Checking", -1) >>] >>

InitShort ==
    /\ tx = [date |-> TxDate, postings |-> << >>]
    /\ btx = NoResult
    /\ pc = "new"
    /\ err = ""
    /\ now = Sep
    /\ directives = LedgerSep
    /\ storage = EmptyMap
    /\ monthly_transactions = EmptyMap
    /\ assigned = EmptyMap
    /\ monthly_totals = EmptyMap

NextShort ==
    \/ Load
    \/ \E month \in MonthUniverse, category \in CategoryKeys, amount \in AssignInputs :
           SetAssigned(month, category, amount)

SpecShort == InitShort /\ [][NextShort]_vars

(***************************************************************************)
(* What the claims about the classifier speak of, read off the raw         *)
(* transaction itself and not off the classifier's result.                 *)
(***************************************************************************)
RECURSIVE SumOver(_, _)
SumOver(f, S) ==
    IF S = {} THEN 0
    ELSE LET k == CHOOSE x \in S : TRUE IN f[k] + SumOver(f, S \ {k})

\* the keys of the categories that list an account
ListedBy(account) ==
    {all_categories[i].key :
        i \in {j \in 1..Len(all_categories) : account \in all_categories[j].accounts}}

\* the postings (by index) to budget accounts, and to category accounts
BudgetPostings(t) == {i \in 1..Len(t.postings) : t.postings[i].account \in accounts}
CategoryPostings(t) == {i \in 1..Len(t.postings) : ListedBy(t.postings[i].account) # {}}

\* every posting the classifier reads carries an amount, and no account of
\* the transaction is listed by two categories: flow and spending are defined
Classifiable(t) ==
    /\ \A i \in BudgetPostings(t) \cup CategoryPostings(t) : t.postings[i].units # << >>
    /\ \A i \in 1..Len(t.postings) : Cardinality(ListedBy(t.postings[i].account)) <= 1

RawFlow(t) == SumOver([i \in BudgetPostings(t) |-> t.postings[i].units[1]], BudgetPostings(t))
RawSpending(t) ==
    0 - SumOver([i \in CategoryPostings(t) |-> t.postings[i].units[1]], CategoryPostings(t))

\* C1. Conservation: every transaction the classifier returns has
\* funding + total_spending = flow, total_spending being the sum of its
\* spending over all the categories of the spec.
C1_Conservation ==
    btx.kind = "ok" =>
        btx_funding(btx) + SumOver(btx.spending, CategoryKeys) = btx.flow

\* a returned transaction with funding and with spending (the split expense
\* with a rebate of test_split_expense_with_negative)
C1_Witness ==
    /\ btx.kind = "ok"
    /\ btx.flow = -1
    /\ btx.spending["utilities"] = -2
    /\ btx_funding(btx) = 1

\* C2 as stated: a returned transaction has funding >= 0, and every raw
\* transaction whose flow minus categorized spending is negative fails with
\* the negative-funding error.
C2_AsStated ==
    btx.kind # "pending" =>
        /\ btx.kind = "ok" => btx.flow - SumOver(btx.spending, CategoryKeys) >= 0
        /\ (Classifiable(tx) /\ RawFlow(tx) - RawSpending(tx) < 0) =>
               (btx.kind = "error" /\ btx.error = "Negative funding")

\* C2, amended: a returned transaction has funding >= 0, and every raw
\* transaction with a NON-ZERO flow whose flow minus categorized spending is
\* negative fails with the negative-funding error (with a zero flow the
\* transaction is discarded without an error); nothing is returned then.
C2_NonNegativeFunding ==
    btx.kind # "pending" =>
        /\ btx.kind = "ok" => btx.flow - SumOver(btx.spending, CategoryKeys) >= 0
        /\ (Classifiable(tx) /\ RawFlow(tx) # 0 /\ RawFlow(tx) - RawSpending(tx) < 0) =>
               (btx.kind = "error" /\ btx.error = "Negative funding")

\* an outflow of the budget that no category explains (test_negative_income)
\* has been refused
C2_Witness ==
    /\ Classifiable(tx)
    /\ RawFlow(tx) = -1
    /\ RawSpending(tx) = 0
    /\ btx.kind = "error"
    /\ btx.error = "Negative funding"

\* ----------------------------------------------------------------------
\* The monthly records
\* ----------------------------------------------------------------------

\* the MonthlyTotals records the budget holds
Records == {monthly_totals[m] : m \in DOMAIN monthly_totals}

Max0(n) == IF n > 0 THEN n ELSE 0
Min0(n) == IF n < 0 THEN n ELSE 0

\* the balance of one category of a record, from the record's own fields
Balance(r, k) == r.previous_carryover[k] + r.spending[k] + r.assigning[k]

\* C3. For every monthly record, to_be_assigned is the previous
\* to-be-assigned, plus the previous holding, plus the previous overspending
\* (non-positive), plus the month's funding, minus the sum of the amounts
\* assigned in the month, minus the month's holding.
C3_ToBeAssigned ==
    \A r \in Records :
        to_be_assigned(r) =
            r.previous_tba + r.previous_holding + r.previous_overspending
            + r.funding - SumOver(r.assigning, CategoryKeys) - r.holding

\* a record in which every one of the six terms is non-zero
C3_Witness ==
    \E r \in Records :
        /\ r.previous_tba # 0 /\ r.previous_holding # 0
        /\ r.previous_overspending < 0 /\ r.funding # 0
        /\ SumOver(r.assigning, CategoryKeys) # 0 /\ r.holding # 0

\* C4. For every monthly record and every category, the carryover balance is
\* max(category balance, 0): never negative, equal to the balance when that is
\* non-negative, and zero when it is negative; no record is carried a negative
\* balance from the month before.
C4_CarryoverClamped ==
    \A r \in Records : \A k \in CategoryKeys :
        /\ carryover_balances(r)[k] = Max0(category_balances(r)[k])
        /\ category_balances(r)[k] = Balance(r, k)
        /\ carryover_balances(r)[k] >= 0
        /\ r.previous_carryover[k] >= 0

\* a month with one overspent category and one category in credit, and the
\* month after it carrying zero for the first and the credit for the second
C4_Witness ==
    /\ Oct \in DOMAIN monthly_totals /\ Nov \in DOMAIN monthly_totals
    /\ Balance(monthly_totals[Oct], "rent") < 0
    /\ Balance(monthly_totals[Oct], "utilities") > 0
    /\ monthly_totals[Nov].previous_carryover["rent"] = 0
    /\ monthly_totals[Nov].previous_carryover["utilities"] > 0

\* C5. For every monthly record, overspending is the sum of the category
\* balances that are negative; it is never positive, and it is zero exactly
\* when no category balance is negative.
C5_Overspending ==
    \A r \in Records :
        /\ overspending(r) =
               SumOver([k \in CategoryKeys |-> Min0(Balance(r, k))], CategoryKeys)
        /\ overspending(r) <= 0
        /\ (overspending(r) = 0) <=> (\A k \in CategoryKeys : Balance(r, k) >= 0)

\* a record with two overspent categories, beside a record with none
C5_Witness ==
    /\ \E r \in Records :
           /\ Balance(r, "rent") = -1 /\ Balance(r, "utilities") = -1
           /\ overspending(r) = -2
    /\ \E r \in Records :
           /\ Balance(r, "rent") = 0 /\ Balance(r, "utilities") > 0
           /\ overspending(r) = 0

\* ----------------------------------------------------------------------
\* The chain of records and the recompute pass
\* ----------------------------------------------------------------------

\* months counted from year 0, and back
MonthIndex(m) == 12 * m.year + m.month - 1
MonthAt(i) == Month((i % 12) + 1, i \div 12)
Following(m) == MonthAt(MonthIndex(m) + 1)
MonthsFromTo(a, b) == {MonthAt(i) : i \in MonthIndex(a)..MonthIndex(b)}
RECURSIVE MonthSeq(_, _)
MonthSeq(a, b) ==
    IF MonthIndex(a) > MonthIndex(b) THEN << >>
    ELSE << a >> \o MonthSeq(Following(a), b)

\* the first and the latest relevant month of a session
StartOf(s) == min_month(DOMAIN s.monthly_transactions)
LatestOf(s) == latest_month([s EXCEPT !.assigned = prune(s.assigned)], now)
InRange(s, m) ==
    MonthIndex(StartOf(s)) <= MonthIndex(m) /\ MonthIndex(m) <= MonthIndex(LatestOf(s))

\* record `next` takes its four carried-in values from record `r`
Linked(r, next) ==
    /\ next.previous_tba = to_be_assigned(r)
    /\ next.previous_holding = r.holding
    /\ next.previous_overspending = overspending(r)
    /\ next.previous_carryover = carryover_balances(r)

\* C6. After the initial load and after any sequence of set_assigned and
\* set_held calls that returned, for every month M from the ledger start up to
\* the month before the latest relevant month, the record of M+1 carries in the
\* to-be-assigned, the holding, the overspending and the carryover balances of
\* the record of M as it now is.
C6_ChainLinkage ==
    pc = "ready" =>
        \A m \in MonthsFromTo(StartOf(Current), LatestOf(Current)) :
            /\ m \in DOMAIN monthly_totals
            /\ m # LatestOf(Current) =>
                   /\ Following(m) \in DOMAIN monthly_totals
                   /\ Linked(monthly_totals[m], monthly_totals[Following(m)])

\* calls have returned, one of them grew the range to December, and each
\* record hands non-zero values to the next
C6_Witness ==
    /\ pc = "ready" /\ now = Oct /\ LatestOf(Current) = Dec
    /\ {Oct, Dec} \subseteq DOMAIN monthly_totals
    /\ Oct \in DOMAIN assigned /\ Nov \in DOMAIN assigned
    /\ to_be_assigned(monthly_totals[Oct]) # 0
    /\ monthly_totals[Oct].holding # 0
    /\ overspending(monthly_totals[Oct]) # 0
    /\ carryover_balances(monthly_totals[Oct])["utilities"] # 0
    /\ monthly_totals[Dec].previous_overspending # 0
    /\ monthly_totals[Dec].previous_holding # 0

\* the sessions a mutation of the current session returns with: the month and
\* the month the recompute pass was started from
AssignedCalls ==
    {[month |-> m, done |-> update_assigned_amount(Current, m, k, a, now)] :
        m \in MonthUniverse, k \in KeyInputs, a \in AssignInputs}
HeldCalls ==
    {[month |-> m, done |-> update_held_amount(Current, m, a, now)] :
        m \in MonthUniverse, a \in HeldInputs}
ReturnedCalls == {c \in AssignedCalls \cup HeldCalls : c.done.error = ""}

\* the chain rebuilt from the first month with the store as it is
FullRebuild(s) ==
    update_monthly_totals([s EXCEPT !.monthly_totals = EmptyMap, !.writes = << >>],
                          << >>, now)

\* C7. After set_assigned or set_held for a month returns, every record from
\* that month through the latest relevant month equals the record a full
\* rebuild of the chain from the first month, with the store as it then is,
\* gives for the same month.
C7_IncrementalIsFull ==
    pc = "ready" =>
        \A c \in ReturnedCalls :
            LET full == FullRebuild(c.done)
            IN  /\ full.error = ""
                /\ \A m \in MonthsFromTo(c.month, LatestOf(c.done)) :
                       /\ m \in DOMAIN c.done.monthly_totals
                       /\ m \in DOMAIN full.monthly_totals
                       /\ c.done.monthly_totals[m] = full.monthly_totals[m]

\* mutations of October and of November have returned, and the December
\* record shows both
C7_Witness ==
    /\ pc = "ready" /\ now = Oct
    /\ Oct \in DOMAIN assigned /\ assigned[Oct].categories["utilities"] = 1
    /\ Nov \in DOMAIN assigned /\ assigned[Nov].held = 1
    /\ Dec \in DOMAIN monthly_totals
    /\ monthly_totals[Dec].previous_holding = 1
    /\ monthly_totals[Dec].previous_overspending = -2
    /\ monthly_totals[Nov].previous_carryover["utilities"] = 1
    /\ ReturnedCalls # {}

\* the months a call may have touched: those with a record before or after
Touchable(c) == DOMAIN monthly_totals \cup DOMAIN c.done.monthly_totals

\* C8. A set_assigned or set_held call for month M leaves every month before
\* M as it was: no record of an earlier month is written, added or changed,
\* and so no value derived from one changes.
C8_Locality ==
    pc = "ready" =>
        \A c \in AssignedCalls \cup HeldCalls :
            \A m \in Touchable(c) :
                MonthIndex(m) < MonthIndex(c.month) =>
                    /\ \A i \in 1..Len(c.done.writes) : c.done.writes[i] # m
                    /\ m \in DOMAIN monthly_totals
                    /\ m \in DOMAIN c.done.monthly_totals
                    /\ c.done.monthly_totals[m] = monthly_totals[m]
                    /\ to_be_assigned(c.done.monthly_totals[m])
                           = to_be_assigned(monthly_totals[m])

\* a call for November returned, and another would change the November
\* record again, while October holds a record with amounts of its own
C8_Witness ==
    /\ pc = "ready" /\ now = Oct
    /\ {Oct, Nov} \subseteq DOMAIN monthly_totals
    /\ Nov \in DOMAIN assigned /\ assigned[Nov].categories["utilities"] = 1
    /\ Oct \in DOMAIN assigned /\ assigned[Oct].held = 1
    /\ monthly_totals[Oct].holding = 1
    /\ monthly_totals[Nov].assigning["utilities"] = 1
    /\ \E c \in ReturnedCalls :
           c.month = Nov /\ c.done.monthly_totals[Nov] # monthly_totals[Nov]

\* the current session with an amount just written to the store, and the
\* month it was written for
WrittenSessions ==
    {[month |-> m, set |-> set_category(Current, m, k, a)] :
        m \in MonthUniverse, k \in CategoryKeys, a \in AssignInputs}
    \cup {[month |-> m, set |-> set_held(Current, m, a)] :
              m \in MonthUniverse, a \in 0..MaxHeld}

\* the passes: from any month on the current session, and from the written
\* month or from the ledger start on a session just written to
Passes ==
    {[on |-> [Current EXCEPT !.writes = << >>], from |-> << m >>] :
        m \in MonthUniverse}
    \cup {[on |-> [w.set EXCEPT !.writes = << >>], from |-> << w.month >>] :
              w \in WrittenSessions}
    \cup {[on |-> [w.set EXCEPT !.writes = << >>], from |-> << >>] :
              w \in WrittenSessions}

\* the pass starts at the ledger start or at a month of the range
StartsInRange(p) == p.from = << >> \/ InRange(p.on, p.from[1])

\* C9. A recompute pass from a month of the range, run a second time from the
\* same month with no change to the store or the transactions in between,
\* ends as the first run ended and leaves the records the first run left, for
\* every month and so for every month from that month through the latest
\* relevant month.
C9_Idempotent ==
    pc = "ready" =>
        \A p \in Passes :
            LET once == update_monthly_totals(p.on, p.from, now)
                twice == update_monthly_totals([once EXCEPT !.writes = << >>,
                                                            !.error = ""],
                                               p.from, now)
            IN  StartsInRange(p) =>
                    /\ twice.error = once.error
                    /\ twice.monthly_totals = once.monthly_totals
                    /\ twice.assigned = once.assigned
                    /\ twice.monthly_transactions = once.monthly_transactions
                    /\ twice.writes = once.writes

\* a session on which a pass from October changes the October, November and
\* December records, so that the second run has new records to start from
C9_Witness ==
    /\ pc = "ready" /\ now = Oct /\ Dec \in DOMAIN monthly_totals
    /\ monthly_totals[Dec].previous_tba # 0
    /\ \E p \in Passes :
           LET once == update_monthly_totals(p.on, p.from, now)
           IN  /\ once.error = "" /\ once.writes = << Oct, Nov, Dec >>
               /\ \A m \in {Oct, Nov, Dec} :
                      once.monthly_totals[m] # monthly_totals[m]

\* C10 as stated. A recompute pass started from a month between the ledger
\* start and the latest relevant month returns without error, having written
\* one record for each month from that month through the latest relevant
\* month, in increasing order, across a year boundary as within a year, each
\* record but the ledger start's built from the record of the month before as
\* the pass left it.
C10_AsStated ==
    pc = "ready" =>
        \A p \in Passes :
            (p.from # << >> /\ InRange(p.on, p.from[1])) =>
                LET pass == update_monthly_totals(p.on, p.from, now)
                    months == MonthsFromTo(p.from[1], LatestOf(p.on))
                IN  /\ pass.error = ""
                    /\ pass.writes = MonthSeq(p.from[1], LatestOf(p.on))
                    /\ \A w \in months \ {StartOf(p.on)} :
                           \E m \in DOMAIN pass.monthly_totals :
                               /\ Following(m) = w
                               /\ Linked(pass.monthly_totals[m],
                                         pass.monthly_totals[w])

\* ----------------------------------------------------------------------
\* The classifier, case by case
\* ----------------------------------------------------------------------

\* every posting of the transaction to a budget account carries an amount
BudgetAmountsGiven(t) == \A i \in BudgetPostings(t) : t.postings[i].units # << >>

\* the months' transaction lists after Budget.__init__ has converted a ledger
\* that holds this transaction alone
FiledAlone(t) ==
    convert_all(<< t >>, 1, Session(EmptyMap, EmptyMap, EmptyMap, EmptyMap))

\* C11. Zero-flow discard: a transaction whose postings to budget accounts
\* all carry amounts and sum to zero (a transaction with no posting to a
\* budget account among them) gives no transaction and no error, whatever its
\* other postings are, and enters no month's transaction list.
C11_ZeroFlowDiscarded ==
    (btx.kind # "pending" /\ BudgetAmountsGiven(tx) /\ RawFlow(tx) = 0) =>
        /\ btx.kind = "none"
        /\ FiledAlone(tx).error = ""
        /\ FiledAlone(tx).monthly_transactions = EmptyMap

\* a transfer between two budget accounts with a third posting to an account
\* that two categories list has been discarded
C11_Witness ==
    /\ btx.kind = "none"
    /\ Len(tx.postings) = 3
    /\ tx.postings[1] = [account |-> "Assets:Checking", units |-> << -1 >>]
    /\ tx.postings[2] = [account |-> "Assets:Bills", units |-> << 1 >>]
    /\ tx.postings[3].account = "Expenses:Shared"

\* the postings (by index) whose account one category, k, lists
ClassifiedTo(t, k) ==
    {i \in 1..Len(t.postings) : ListedBy(t.postings[i].account) = {k}}

\* C12. For every transaction the classifier returns and every category key
\* k, spending[k] is the negated sum of the amounts of the postings whose
\* account classifies to k, zero when there is none; it is not clamped, so a
\* refund posted to a category account gives a positive spending[k].
C12_SpendingNegatedSum ==
    btx.kind = "ok" =>
        \A k \in CategoryKeys :
            btx.spending[k] =
                0 - SumOver([i \in ClassifiedTo(tx, k) |-> tx.postings[i].units[1]],
                            ClassifiedTo(tx, k))

\* two refunds posted to the rent account have given a positive spending,
\* and nothing was posted to utilities
C12_Witness ==
    /\ btx.kind = "ok"
    /\ Cardinality(ClassifiedTo(tx, "rent")) = 2
    /\ ClassifiedTo(tx, "utilities") = {}
    /\ btx.spending["rent"] = 2
    /\ btx.spending["utilities"] = 0

\* the postings (by index) to an account that is a budget account and that a
\* category lists as well
ConflictPostings(t) ==
    {i \in BudgetPostings(t) : ListedBy(t.postings[i].account) # {}}

\* C13 as stated. Budget/category conflict: every transaction with a
\* non-zero flow that holds a posting to an account which is a budget account
\* and which also classifies to a category fails with the conflict error and
\* gives no transaction.  (Stated of the transactions in which nothing else is
\* amiss: every amount is given and no account is listed by two categories.)
C13_AsStated ==
    (btx.kind # "pending" /\ Classifiable(tx) /\ RawFlow(tx) # 0
        /\ ConflictPostings(tx) # {}) =>
            /\ btx.kind = "error"
            /\ btx.error = "cannot be budget account and budget category"

NullPostingError == btx.kind = "error" /\ btx.error = "Null posting"

\* the postings (by index) without an amount whose account exactly one
\* category lists
NullCategoryPostings(t) ==
    {i \in 1..Len(t.postings) :
        /\ Cardinality(ListedBy(t.postings[i].account)) = 1
        /\ t.postings[i].units = << >>}

\* no posting before the i-th is to an account that two categories list
UnambiguousBefore(t, i) ==
    \A j \in 1..(i - 1) : Cardinality(ListedBy(t.postings[j].account)) <= 1

\* a returned transaction was computed from postings that all carry amounts
NothingFromNull ==
    btx.kind = "ok" =>
        \A i \in BudgetPostings(tx) \cup CategoryPostings(tx) :
            tx.postings[i].units # << >>

Listing == {i \in 1..Len(tx.categories) : tx.account \in tx.categories[i].accounts}
FirstListing == CHOOSE i \in Listing : \A j \in Listing : i <= j
SecondListing ==
    CHOOSE i \in Listing \ {FirstListing} : \A j \in Listing \ {FirstListing} : i <= j

\* C15. classify gives the key of the single category that lists the
\* account, gives no category when none lists it, and fails with the
\* ambiguity error, naming two of the keys, whenever two or more categories
\* list it; it never picks one of several matches.
C15_Classify ==
    pc = "classified" =>
        /\ Listing = {} => (btx.error = "" /\ btx.key = "")
        /\ Cardinality(Listing) = 1 =>
               (btx.error = "" /\ btx.key = tx.categories[FirstListing].key)
        /\ Cardinality(Listing) >= 2 =>
               /\ btx.error = "fits in multiple categories"
               /\ btx.named = << tx.categories[FirstListing].key,
                                 tx.categories[SecondListing].key >>

\* an account that the first and the third of three categories list has
\* been refused, both keys named
C15_Witness ==
    /\ pc = "classified"
    /\ Len(tx.categories) = 3
    /\ Listing = {1, 3}
    /\ btx.error = "fits in multiple categories"
    /\ btx.named = << "rent", "car" >>

(***************************************************************************)
(* What the store refuses.                                                 *)
(***************************************************************************)
UnknownKeyCalls ==
    {[month |-> m, amount |-> a,
      done |-> update_assigned_amount(Current, m, "not-real", a, now)] :
        m \in MonthUniverse, a \in AssignInputs}

\* the amounts the store gives for a month (a month it does not hold reads
\* as the default record)
AmountsRead(a, m) == IF m \in DOMAIN a THEN a[m] ELSE default_assigned

\* C16. update_assigned_amount with a key that is not a category of the
\* spec fails with the unknown-category error (KeyError), and the failed
\* call changes no assigned amount, no MonthlyTotals record and nothing of
\* the store file.
C16_UnknownKeyRefused ==
    pc = "ready" =>
        \A c \in UnknownKeyCalls :
            /\ c.done.error = "KeyError: category"
            /\ \A m \in MonthUniverse \cup DOMAIN assigned \cup DOMAIN c.done.assigned :
                   AmountsRead(c.done.assigned, m) = AmountsRead(assigned, m)
            /\ prune(c.done.assigned) = prune(assigned)
            /\ c.done.monthly_totals = monthly_totals
            /\ c.done.storage = storage

\* a session with records and assigned amounts in which the call with the
\* unknown key has failed
C16_Witness ==
    /\ pc = "raised"
    /\ err = "KeyError: category"
    /\ monthly_totals # EmptyMap
    /\ \E m \in DOMAIN assigned : assigned[m].categories["rent"] = 1

NegativeHeldCalls ==
    {[month |-> m, amount |-> a, done |-> update_held_amount(Current, m, a, now)] :
        m \in MonthUniverse, a \in {h \in HeldInputs : h < 0}}

HeldError == "AssertionError: Can't have negative held balance"

\* C17. In every state the held amount of every month of the store is >= 0;
\* a store file with a negative held amount is refused when its records are
\* constructed, leaving no store and no MonthlyTotals record; and
\* update_held_amount with a negative amount fails and changes no assigned
\* or held amount, no MonthlyTotals record and nothing of the store file.
C17_HeldNeverNegative ==
    /\ \A m \in DOMAIN assigned : assigned[m].held >= 0
    /\ (pc # "new" /\ \E m \in DOMAIN storage : storage[m].held < 0) =>
           /\ pc = "raised"
           /\ err # ""
           /\ assigned = EmptyMap
           /\ monthly_totals = EmptyMap
    /\ pc = "ready" =>
           \A c \in NegativeHeldCalls :
               /\ c.done.error = HeldError
               /\ \A m \in MonthUniverse \cup DOMAIN assigned \cup DOMAIN c.done.assigned :
                      AmountsRead(c.done.assigned, m) = AmountsRead(assigned, m)
               /\ prune(c.done.assigned) = prune(assigned)
               /\ c.done.monthly_totals = monthly_totals
               /\ c.done.storage = storage

\* a session holding an amount in October in which update_held_amount with
\* a negative amount has failed
C17_Witness ==
    /\ pc = "raised"
    /\ err = HeldError
    /\ monthly_totals # EmptyMap
    /\ Oct \in DOMAIN assigned /\ assigned[Oct].held = 1

\* a store file with a negative held amount has been refused at load
C17_RefusedAtLoad ==
    /\ pc = "raised"
    /\ err = HeldError
    /\ storage = FileNegativeHeld

(***************************************************************************)
(* How a change of one month spreads over the records.                     *)
(***************************************************************************)
\* the calls that change the held amount of a month, or set again the held
\* amount of a month that has a record; no month is before the ledger's first
HeldChanges ==
    {c \in {[month |-> m, amount |-> a,
             done |-> update_held_amount(Current, m, a, now)] :
                m \in {x \in MonthUniverse : month_le(StartOf(Current), x)},
                a \in {h \in HeldInputs : h >= 0}} :
        \/ c.amount # AmountsRead(assigned, c.month).held
        \/ c.month \in DOMAIN monthly_totals}

\* what the claim says of one change of the held amount
HeldSpreads(c) ==
    LET h == AmountsRead(assigned, c.month).held
        after == c.done.monthly_totals
    IN  /\ c.month \in DOMAIN after
        /\ after[c.month].holding = c.amount
        /\ c.month \in DOMAIN monthly_totals =>
               to_be_assigned(after[c.month]) =
                   to_be_assigned(monthly_totals[c.month]) - (c.amount - h)
        /\ \A m \in DOMAIN monthly_totals :
               /\ m \in DOMAIN after
               /\ category_balances(after[m]) = category_balances(monthly_totals[m])
               /\ month_lt(c.month, m) =>
                      /\ after[m].holding = monthly_totals[m].holding
                      /\ to_be_assigned(after[m]) = to_be_assigned(monthly_totals[m])

\* C18. Changing the held amount of a month M from h to h' makes
\* holding[M] = h', changes to_be_assigned[M] by -(h' - h), and leaves the
\* holding and to_be_assigned of every later month and every category
\* balance of every month as they were.
C18_AsStated ==
    pc = "ready" /\ monthly_transactions # EmptyMap =>
        \A c \in HeldChanges : HeldSpreads(c)

\* the same of the changes that never come to a January after the ledger's
\* first month
C18_WithinTheYear ==
    pc = "ready" /\ monthly_transactions # EmptyMap =>
        \A c \in HeldChanges :
            (c.done.error = "" \/ c.month \in DOMAIN c.done.monthly_totals)
                => HeldSpreads(c)

\* the calls that raise the amount assigned to a category in a month from
\* which on the category's balance is nowhere negative
AssignedRaises ==
    {c \in {[month |-> m, key |-> k, amount |-> a,
             d |-> a - AmountsRead(assigned, m).categories[k],
             done |-> update_assigned_amount(Current, m, k, a, now)] :
                m \in DOMAIN monthly_totals, k \in CategoryKeys, a \in AssignInputs} :
        /\ c.d >= 0
        /\ \A m \in DOMAIN monthly_totals :
               month_le(c.month, m) => category_balances(monthly_totals[m])[c.key] >= 0}

\* what the claim says of the record of month m after the raise c
RaisedIn(c, m) ==
    LET after == c.done.monthly_totals
    IN  /\ m \in DOMAIN after
        /\ m \in DOMAIN monthly_totals =>
               /\ category_balances(after[m])[c.key] =
                      category_balances(monthly_totals[m])[c.key] + c.d
               /\ to_be_assigned(after[m]) = to_be_assigned(monthly_totals[m]) - c.d
               /\ \A k \in CategoryKeys \ {c.key} :
                      category_balances(after[m])[k] =
                          category_balances(monthly_totals[m])[k]

\* C19. When the balance of category k is non-negative in month M and in
\* every later month, raising the amount assigned to k in M by d >= 0 raises
\* the balance of k by d and lowers to_be_assigned by d in the record of
\* every month from M through the latest relevant month, and changes the
\* balance of no other category.
C19_AsStated ==
    pc = "ready" =>
        \A c \in AssignedRaises :
            \A m \in MonthsFromTo(c.month, LatestOf(c.done)) : RaisedIn(c, m)

\* the same of the months that have their record after the call
C19_WithinTheYear ==
    pc = "ready" =>
        \A c \in AssignedRaises :
            \A m \in MonthsFromTo(c.month, LatestOf(c.done)) :
                (c.done.error = "" \/ m \in DOMAIN c.done.monthly_totals)
                    => RaisedIn(c, m)

\* a raise by one that returned and reached the record of a later month
C19_RaiseReachesLaterMonth ==
    /\ pc = "ready"
    /\ \E c \in AssignedRaises :
           /\ c.d = 1 /\ c.done.error = ""
           /\ \E m \in DOMAIN monthly_totals : month_lt(c.month, m)

(***************************************************************************)
(* Month arithmetic.                                                       *)
(***************************************************************************)
\* C20. For every valid Month m and every integer n, m + n and m - n are
\* valid Months (no ValueError, month field in 1..12), (m + n) - m = n, and
\* (m + n) - n = m.
C20_AsStated ==
    /\ pc = "subtracted" => (btx.error = "" /\ btx.value.month \in 1..12)
    /\ pc = "added" =>
           /\ btx.error = "" /\ btx.value.month \in 1..12
           /\ month_diff(btx.value, tx.month) = tx.n
           /\ construct(month_sub(btx.value, tx.n)) = [error |-> "", value |-> tx.month]

\* the same of the arithmetic in which no construction lands on a month
\* number that is a multiple of twelve other than 12 itself
C20_WhenConstructed ==
    /\ (pc = "added" /\ btx.error = "") =>
           /\ month_diff(btx.value, tx.month) = tx.n
           /\ construct(month_sub(btx.value, tx.n)).error = "" =>
                  month_sub(btx.value, tx.n) = tx.month
    /\ (pc \in {"added", "subtracted"} /\ btx.error # "") =>
           LET landed == IF pc = "added" THEN tx.month.month + tx.n
                         ELSE tx.month.month - tx.n
           IN  landed % 12 = 0 /\ landed # 12

\* January minus one has raised
C20_JanuaryMinusOne ==
    /\ pc = "subtracted"
    /\ tx.month.month = 1 /\ tx.n = 1
    /\ btx.error = "ValueError: Month must be between 1 and 12"

(***************************************************************************)
(* What is refused when the spec is loaded.                                *)
(***************************************************************************)
\* the accounts of the spec loaded that more than one category lists
SharedAccounts ==
    {a \in ListedAccounts :
        Cardinality({i \in 1..Len(tx.categories) : a \in tx.categories[i].accounts}) > 1}

\* the keys of the spec loaded are all different
KeysUnique ==
    \A i, j \in 1..Len(tx.categories) :
        tx.categories[i].key = tx.categories[j].key => i = j

\* C21. A spec in which an account is listed under more than one category
\* is rejected when the spec is loaded, before any account is classified,
\* whether or not a transaction posts to the account.
C21_AsStated ==
    SharedAccounts # {} => pc \in {"spec", "rejected"}

\* what the load does refuse: exactly the specs with a repeated category key
C21_DuplicateKeysRefused ==
    /\ pc = "rejected" => (~ KeysUnique /\ err = "ValueError: Duplicate category key")
    /\ pc \in {"classify", "classified"} => (KeysUnique /\ err = "")

\* a spec listing an account twice has been loaded and asked for another
\* account, with no error anywhere
C21_SharedAccountLoaded ==
    /\ pc = "classified"
    /\ SharedAccounts = {"Expenses:Shared"}
    /\ tx.account = "Expenses:Rent"
    /\ btx.error = "" /\ err = ""

(***************************************************************************)
(* A pass that fails.                                                      *)
(***************************************************************************)
\* the passes that raise, on the current session from any month and on a
\* session just written to from the written month
FailedPasses ==
    {c \in {[on |-> p.on, from |-> p.from,
             done |-> update_monthly_totals(p.on, p.from, now)] :
               p \in {q \in Passes : q.from # << >>}
                     \cup {[on |-> [Current EXCEPT !.writes = << >>], from |-> << >>]}} :
        c.done.error # "" /\ monthly_transactions # EmptyMap}

\* the month the pass was building when it raised
FailedAt(c) ==
    IF c.done.writes = << >> THEN first_month(c.on, c.from)
    ELSE Following(c.done.writes[Len(c.done.writes)])

\* the records of a failed pass: those of the months it had rebuilt before
\* the failing month are the only ones written
RecordsKept(c) ==
    /\ \A i \in 1..Len(c.done.writes) :
           /\ month_lt(c.done.writes[i], FailedAt(c))
           /\ month_le(first_month(c.on, c.from), c.done.writes[i])
    /\ DOMAIN c.done.monthly_totals =
           DOMAIN c.on.monthly_totals
               \cup {c.done.writes[i] : i \in 1..Len(c.done.writes)}
    /\ \A m \in DOMAIN c.on.monthly_totals :
           (\A i \in 1..Len(c.done.writes) : c.done.writes[i] # m) =>
               c.done.monthly_totals[m] = c.on.monthly_totals[m]

\* C22. When a recompute pass fails while building month M, no record of M
\* or of a later month has been replaced, and the records of the months
\* rebuilt before M are the only in-memory state that changed: the
\* transactions by month and the store are as they were when the pass began.
C22_AsStated ==
    pc = "ready" =>
        \A c \in FailedPasses :
            /\ RecordsKept(c)
            /\ c.done.monthly_transactions = c.on.monthly_transactions
            /\ \A m \in MonthUniverse \cup DOMAIN c.on.assigned
                        \cup DOMAIN c.done.assigned :
                   AmountsRead(c.done.assigned, m) = AmountsRead(c.on.assigned, m)
            /\ c.done.storage = c.on.storage

\* the part of it about the records
C22_RecordsKept ==
    pc = "ready" => \A c \in FailedPasses : RecordsKept(c)

\* a pass has failed after rebuilding a record
C22_FailedAfterWriting ==
    /\ pc = "ready"
    /\ \E c \in FailedPasses : c.done.writes # << >>

(***************************************************************************)
(* The latest relevant month.                                              *)
(***************************************************************************)
\* L: the latest month whose assigned record is not empty, the current month
\* when there is none
LatestAssigned ==
    LET kept == {m \in DOMAIN assigned : assigned[m] # default_assigned}
    IN  IF kept = {} THEN now ELSE max_month(kept)

\* T: the latest month that holds a classified transaction
LatestTransaction ==
    max_month({m \in DOMAIN monthly_transactions : monthly_transactions[m] # << >>})

\* what Budget.latest_month gives on the current session
LatestNow == latest_month([Current EXCEPT !.assigned = prune(assigned)], now)

\* the consequences the claim draws
LatestBounds ==
    /\ \A m \in DOMAIN assigned :
           assigned[m] # default_assigned => month_lt(m, LatestNow)
    /\ \A m \in DOMAIN monthly_transactions :
           monthly_transactions[m] # << >> => month_le(m, LatestNow)
    /\ month_lt(now, LatestNow)

\* C23. latest_month is max(now + 1, L + 1, T), L the latest month with a
\* non-empty assigned record (the current month when there is none) and T the
\* latest month holding a classified transaction; so it is later than every
\* month with an assigned or held amount and not earlier than any
\* transaction month.
C23_AsStated ==
    pc = "ready" =>
        /\ LatestNow = max_month({month_add(now, 1), month_add(LatestAssigned, 1),
                                  LatestTransaction})
        /\ LatestBounds

\* the consequences alone, and that latest_month is never earlier than the
\* month the claim names
C23_Bounds ==
    pc = "ready" =>
        /\ LatestBounds
        /\ month_le(max_month({month_add(now, 1), month_add(LatestAssigned, 1),
                               LatestTransaction}), LatestNow)

\* the store is empty again after an assignment in the month after today's,
\* and latest_month is still two months after today's
C23_LatestStays ==
    /\ pc = "ready" /\ now = Oct
    /\ prune(assigned) = EmptyMap
    /\ LatestTransaction = Nov
    /\ LatestNow = Dec

(***************************************************************************)
(* Every month of the range has its record.                                *)
(***************************************************************************)
\* a month with no transaction, no assigned amount and nothing held
EmptyMonth(m) ==
    /\ (m \in DOMAIN monthly_transactions => monthly_transactions[m] = << >>)
    /\ AmountsRead(assigned, m) = default_assigned

\* C24. After the load and after every mutation that returned, every month
\* from the ledger start through the latest relevant month has a record; in
\* the record of a month with no transactions, no assignments and nothing
\* held, to_be_assigned is previous_tba + previous_holding +
\* previous_overspending, the category balances are the carryover carried
\* in, and overspending is zero.
C24_NoGaps ==
    pc = "ready" =>
        \A m \in MonthsFromTo(StartOf(Current), LatestNow) :
            /\ m \in DOMAIN monthly_totals
            /\ EmptyMonth(m) =>
                   LET r == monthly_totals[m]
                   IN  /\ to_be_assigned(r) =
                              r.previous_tba + r.previous_holding
                              + r.previous_overspending
                       /\ category_balances(r) = r.previous_carryover
                       /\ overspending(r) = zero
                       /\ r.holding = zero

\* December is an empty month and the last of the range, and its record
\* carries in a held amount and a category balance from November
C24_Witness ==
    /\ pc = "ready"
    /\ LatestNow = Dec /\ Dec \in DOMAIN monthly_totals /\ EmptyMonth(Dec)
    /\ monthly_totals[Dec].previous_holding = 1
    /\ monthly_totals[Dec].previous_carryover["rent"] = 1
    /\ to_be_assigned(monthly_totals[Dec]) = 1

(***************************************************************************)
(* A store file with a key the spec does not define.                       *)
(***************************************************************************)
UnknownKeyError == "ValueError: Budgeted amount for non-existent category"

\* the keys of the store file that are no category of the spec
KeysNotInSpec ==
    UNION {{k \in DOMAIN storage[m].categories : k \notin CategoryKeys} :
               m \in DOMAIN storage}

\* C25. Loading a store file that assigns an amount to a key the spec does
\* not define fails at load, before any MonthlyTotals record is computed:
\* the key is never dropped or defaulted in silence, and no record has an
\* assigned amount for it.
C25_UnknownKeyAtLoad ==
    (pc # "new" /\ KeysNotInSpec # {}) =>
        /\ pc = "raised"
        /\ err # ""
        /\ monthly_totals = EmptyMap

\* the transactions of the ledger were classified and the store file was
\* then refused for its key
C25_Witness ==
    /\ pc = "raised"
    /\ err = UnknownKeyError
    /\ KeysNotInSpec = {"not-real"}
    /\ directives = LedgerOctNov
    /\ monthly_totals = EmptyMap

(***************************************************************************)
(* What save writes.                                                       *)
(***************************************************************************)
\* the in-memory stores a save may find: the current one, and the current
\* one after an amount was put into it
StoresToSave ==
    {assigned} \cup {w.set.assigned : w \in {x \in WrittenSessions : x.set.error = ""}}

\* a record of the store with nothing held and nothing assigned
EmptyRecord(rec) == rec.held = 0 /\ \A k \in DOMAIN rec.categories : rec.categories[k] = 0

\* the file holds no empty month and no zero entry, and holds every held
\* amount and every entry of the store a that is not zero, and nothing else
MinimalFormOf(file, a) ==
    /\ \A m \in DOMAIN file :
           /\ file[m].held # 0 \/ DOMAIN file[m].categories # {}
           /\ \A k \in DOMAIN file[m].categories : file[m].categories[k] # 0
           /\ m \in DOMAIN a /\ file[m].held = a[m].held
           /\ \A k \in DOMAIN file[m].categories :
                  k \in DOMAIN a[m].categories
                  /\ file[m].categories[k] = a[m].categories[k]
    /\ \A m \in DOMAIN a :
           /\ a[m].held # 0 => (m \in DOMAIN file /\ file[m].held = a[m].held)
           /\ \A k \in DOMAIN a[m].categories :
                  a[m].categories[k] # 0 =>
                      /\ m \in DOMAIN file /\ k \in DOMAIN file[m].categories
                      /\ file[m].categories[k] = a[m].categories[k]

\* C26. The data save writes has no empty month (nothing held, every
\* category zero) and no zero category entry, and has every non-zero held
\* amount and category entry of the in-memory store, unchanged; prune
\* removes the empty months and nothing else.  The file of a session is the
\* one it was opened with or of that form.
C26_MinimalForm ==
    pc = "ready" =>
        /\ \A a \in StoresToSave :
               /\ MinimalFormOf(written(a), a)
               /\ DOMAIN prune(a) = {m \in DOMAIN a : ~ EmptyRecord(a[m])}
               /\ \A m \in DOMAIN prune(a) : prune(a)[m] = a[m]
        /\ storage \in StoreFiles \/ MinimalFormOf(storage, assigned)

\* a store with an empty month, a zero entry beside a non-zero one, and a
\* held amount is about to be saved
C26_Witness ==
    /\ pc = "ready"
    /\ \E a \in StoresToSave :
           /\ \E m \in DOMAIN a : EmptyRecord(a[m])
           /\ \E m \in DOMAIN a :
                  /\ a[m].categories["rent"] = 1 /\ a[m].categories["utilities"] = 0
                  /\ a[m].held = 1
           /\ written(a) # a

(***************************************************************************)
(* Funding is what the tracked accounts do not explain.                    *)
(***************************************************************************)
\* every posting carries an amount and the amounts sum to zero
Balanced(t) ==
    /\ \A i \in 1..Len(t.postings) : t.postings[i].units # << >>
    /\ SumOver([i \in 1..Len(t.postings) |-> t.postings[i].units[1]],
               1..Len(t.postings)) = 0

\* no posting is to an account that is a budget account and a category's too
NoDoubleAccount(t) ==
    \A i \in 1..Len(t.postings) :
        ~ (t.postings[i].account \in accounts /\ ListedBy(t.postings[i].account) # {})

\* the postings to accounts that are no budget account and no category's
UntrackedPostings(t) ==
    {i \in 1..Len(t.postings) :
        t.postings[i].account \notin accounts /\ ListedBy(t.postings[i].account) = {}}
UntrackedSum(t) ==
    SumOver([i \in UntrackedPostings(t) |-> t.postings[i].units[1]], UntrackedPostings(t))

NoAmbiguousPosting(t) ==
    \A i \in 1..Len(t.postings) : Cardinality(ListedBy(t.postings[i].account)) <= 1

NegativeFundingRaised == btx.kind = "error" /\ btx.error = "Negative funding"

\* C27 as stated: for a balanced transaction with no account both budget and
\* category, the funding of the transaction returned is minus the sum of its
\* untracked postings, and classification fails with negative funding
\* exactly when the untracked postings sum to a positive amount.
C27_AsStated ==
    (btx.kind # "pending" /\ Balanced(tx) /\ NoDoubleAccount(tx)) =>
        /\ btx.kind = "ok" => btx_funding(btx) = 0 - UntrackedSum(tx)
        /\ NegativeFundingRaised <=> UntrackedSum(tx) > 0

\* C27, amended: for a balanced transaction with no account both budget and
\* category, the funding of the transaction returned is minus the sum of its
\* untracked postings, and classification fails with negative funding
\* exactly when the untracked postings sum to a positive amount, the flow
\* over the budget accounts is not zero, and no posting is to an account
\* listed by more than one category.
C27_InferredFunding ==
    (btx.kind # "pending" /\ Balanced(tx) /\ NoDoubleAccount(tx)) =>
        /\ btx.kind = "ok" => btx_funding(btx) = 0 - UntrackedSum(tx)
        /\ NegativeFundingRaised <=>
               (UntrackedSum(tx) > 0 /\ RawFlow(tx) # 0 /\ NoAmbiguousPosting(tx))

\* a balanced transaction of three postings, one of them spending, whose
\* untracked posting is positive, has been refused
C27_Witness ==
    /\ Balanced(tx) /\ NoDoubleAccount(tx) /\ NoAmbiguousPosting(tx)
    /\ Len(tx.postings) = 3
    /\ UntrackedSum(tx) = 2
    /\ RawFlow(tx) = -1
    /\ CategoryPostings(tx) # {}
    /\ NegativeFundingRaised

\* a balanced transaction with some flow has been returned with funding
C27_Funded ==
    /\ Balanced(tx) /\ NoDoubleAccount(tx)
    /\ btx.kind = "ok"
    /\ UntrackedSum(tx) = -2
    /\ btx_funding(btx) = 2

(***************************************************************************)
(* Money along the chain.                                                  *)
(***************************************************************************)
\* everything a record accounts for: what is to be assigned, what is held,
\* what is overspent and what the categories carry over
Accounted(r) ==
    to_be_assigned(r) + r.holding + overspending(r)
    + SumOver(carryover_balances(r), CategoryKeys)

\* the flow of the classified transactions of one month, and of the months
\* from the ledger start through m
FlowOf(m) ==
    LET txs == monthly_transactions[m]
    IN  SumOver([i \in 1..Len(txs) |-> txs[i].flow], 1..Len(txs))
FlowThrough(m) ==
    LET months == {x \in DOMAIN monthly_transactions : month_le(x, m)}
    IN  SumOver([x \in months |-> FlowOf(x)], months)

\* C28. After any sequence of set_assigned and set_held calls, for every
\* month M of the range, to_be_assigned + holding + overspending + the sum
\* of the carryover balances of M's record is the sum of the flow of every
\* classified transaction from the ledger start through M, whatever is
\* assigned or held.
C28_MoneyConserved ==
    pc = "ready" =>
        \A m \in DOMAIN monthly_totals : Accounted(monthly_totals[m]) = FlowThrough(m)

\* two months with flow, with amounts assigned and held, overspending and a
\* balance carried over
C28_Witness ==
    /\ pc = "ready"
    /\ {Oct, Nov} \subseteq DOMAIN monthly_totals
    /\ FlowThrough(Oct) = 2 /\ FlowThrough(Nov) = 0
    /\ monthly_totals[Oct].holding = 1
    /\ overspending(monthly_totals[Oct]) = -1
    /\ carryover_balances(monthly_totals[Oct])["utilities"] = 1
    /\ overspending(monthly_totals[Nov]) < 0
    /\ SumOver(monthly_totals[Nov].assigning, CategoryKeys) = 1

(***************************************************************************)
(* The months that have a record.                                          *)
(***************************************************************************)
\* the latest relevant month as C23 states it
LatestStated ==
    max_month({month_add(now, 1), month_add(LatestAssigned, 1), LatestTransaction})

\* the first month that holds a classified transaction
FirstTransaction ==
    min_month({m \in DOMAIN monthly_transactions : monthly_transactions[m] # << >>})

\* C29. After any sequence of mutations the months that have a record are
\* exactly the months from the ledger start through the latest relevant
\* month; when a mutation lowers the latest relevant month, no record
\* remains for a month beyond the new one.
C29_AsStated ==
    pc = "ready" =>
        DOMAIN monthly_totals = MonthsFromTo(FirstTransaction, LatestStated)

\* what does hold: the months with a record are those from the ledger start
\* through Budget.latest_month, which no mutation lowers, and every record is
\* the one a full rebuild from the store and the transactions gives
C29_NoStaleRecord ==
    pc = "ready" =>
        /\ DOMAIN monthly_totals = MonthsFromTo(FirstTransaction, LatestNow)
        /\ monthly_totals = FullRebuild(Current).monthly_totals
        /\ \A c \in ReturnedCalls : month_le(LatestNow, LatestOf(c.done))

\* the last assignment of a future month has been zeroed and December keeps
\* its record
C29_RecordBeyond ==
    /\ pc = "ready" /\ now = Oct
    /\ prune(assigned) = EmptyMap
    /\ LatestStated = Nov
    /\ Dec \in DOMAIN monthly_totals

(***************************************************************************)
(* An assignment at any month from the ledger start on.                    *)
(***************************************************************************)
\* update_assigned_amount at every month from the ledger start on
CallsFromStart ==
    {[month |-> m, key |-> k, amount |-> a,
      done |-> update_assigned_amount(Current, m, k, a, now)] :
        m \in {x \in MonthUniverse : month_le(StartOf(Current), x)},
        k \in CategoryKeys, a \in AssignInputs}

\* every month from the ledger start through the latest relevant month of
\* the session s has a record, linked with the record of the month before
ChainWhole(s) ==
    \A m \in MonthsFromTo(StartOf(s), LatestOf(s)) :
        /\ m \in DOMAIN s.monthly_totals
        /\ m # StartOf(s) =>
               \E p \in DOMAIN s.monthly_totals :
                   Following(p) = m /\ Linked(s.monthly_totals[p], s.monthly_totals[m])

\* C30. update_assigned_amount at any month at or after the ledger start,
\* also one more than a month beyond the latest relevant month, returns
\* without error, and then every month from the ledger start through the
\* new latest relevant month has a record linked with its predecessor's.
C30_AsStated ==
    pc = "ready" =>
        \A c \in CallsFromStart : c.done.error = "" /\ ChainWhole(c.done)

\* the calls that return leave the chain whole, and the calls at a month
\* with a record, or at the month after the latest relevant one, fail only
\* on their way into a January
C30_WhenItReturns ==
    pc = "ready" =>
        \A c \in CallsFromStart :
            /\ c.done.error = "" => ChainWhole(c.done)
            /\ (c.done.error # "" /\ c.month \in DOMAIN c.done.monthly_totals) =>
                   c.done.error = "ValueError: Month must be between 1 and 12"

\* an amount was assigned in December, two months past the latest relevant
\* month, and the call failed for the missing November record
C30_GapRaises ==
    /\ pc = "raised"
    /\ err = "KeyError: monthly_totals"
    /\ now = Sep
    /\ DOMAIN monthly_totals = {Sep, Oct}
    /\ Dec \in DOMAIN assigned /\ assigned[Dec].categories["rent"] = 1

====
